---- MODULE Spec2Model ----
(***************************************************************************)
(* A model of src/game.rs: the transformable shape (Model), the player,    *)
(* the asteroids and the Game orchestrator (levelup / update / pause).     *)
(*                                                                         *)
(* Every f32 / f64 quantity of the program is held in fixed point, as an   *)
(* integer number of thousandths (Milli): positions in 1/1000 px, forces   *)
(* in 1/1000 px/s, angles in 1/1000 rad, times in 1/1000 s.  Products and  *)
(* quotients are rescaled and truncated toward zero.                       *)
(***************************************************************************)
EXTENDS Integers, Sequences, FiniteSets, TLC

\* ------------------------------------------------------------------------
\* Bounds of the model
\* ------------------------------------------------------------------------
\* the highest level levelup is driven to
MaxLevel == 2
\* the number of Running update frames the driver of Spec plays
MaxFrames == 1
\* the number of Running update frames the driver of SpecThrust plays
MaxBurn == 95
\* the number of rotation steps to either side the driver of SpecThrust turns
MaxTurn == 1
\* the number of frames in a row the driver of SpecThrust coasts
MaxCoast == 3
\* the number of values one random draw can take
RngSteps == 4

\* ------------------------------------------------------------------------
\* Fixed point arithmetic
\* ------------------------------------------------------------------------
Milli == 1000

Abs(a) == IF a < 0 THEN -a ELSE a

\* a / b truncated toward zero (b > 0)
TDiv(a, b) == IF a >= 0 THEN a \div b ELSE -((-a) \div b)

\* the product of two fixed point numbers
FMul(a, b) == TDiv(a * b, Milli)

\* the quotient of two fixed point numbers (b > 0)
FDiv(a, b) == TDiv(a * Milli, b)

\* a rounding that sends a half to the even neighbour
RoundHalfEven(a) ==
    LET q == a \div Milli
        r == a % Milli
    IN  IF r > 500 \/ (r = 500 /\ q % 2 = 1) THEN q + 1 ELSE q

\* f32::round: to the nearest integer, half away from zero
Round(a) == IF a >= 0 THEN (a + 500) \div Milli ELSE -((-a + 500) \div Milli)

PI == 3142
TWO_PI == 6283
HALF_PI == 1571

\* sin of an angle of the first quadrant, 0 <= y <= HALF_PI, by its Taylor
\* polynomial up to y^7
SinQ(y) ==
    LET y2 == FMul(y, y)
        t3 == TDiv(y * y2, 6 * Milli)
        t5 == TDiv(t3 * y2, 20 * Milli)
        t7 == TDiv(t5 * y2, 42 * Milli)
    IN  y - t3 + t5 - t7

\* f32::sin
Sin(a) ==
    LET r == a % TWO_PI
    IN  IF r <= HALF_PI THEN SinQ(r)
        ELSE IF r <= PI THEN SinQ(PI - r)
        ELSE IF r <= PI + HALF_PI THEN -SinQ(r - PI)
        ELSE -SinQ(TWO_PI - r)

\* f32::cos
Cos(a) == Sin(a + HALF_PI)

Vec(x, y) == [x |-> x, y |-> y]

VAdd(a, b) == Vec(a.x + b.x, a.y + b.y)

\* Vector2 * f32 and Vector2::scale
VScale(a, s) == Vec(FMul(a.x, s), FMul(a.y, s))

\* Vector2 / f32
VDiv(a, s) == Vec(FDiv(a.x, s), FDiv(a.y, s))

\* f32::clamp
Clamp(a, lo, hi) == IF a < lo THEN lo ELSE IF a > hi THEN hi ELSE a

\* Vector2::clamp(lo..hi): each component clamped
VClamp(a, lo, hi) == Vec(Clamp(a.x, lo, hi), Clamp(a.y, lo, hi))

\* Vector2::rotate
VRotate(a, angle) ==
    Vec(FMul(a.x, Cos(angle)) - FMul(a.y, Sin(angle)),
        FMul(a.x, Sin(angle)) + FMul(a.y, Cos(angle)))

\* ------------------------------------------------------------------------
\* The random source (rand::thread_rng): stream seed, draw number i
\* ------------------------------------------------------------------------
\* the random streams a call may see
Seeds == { 0, 1 }

Rand(seed, i) == (seed + i * (2 * seed + 1)) % RngSteps

\* rng.gen_range(lo..hi) of floats: lo <= result < hi
GenRange(lo, hi, u) == lo + TDiv((hi - lo) * u, RngSteps)

\* rng.gen_range(lo..=hi) of floats: lo <= result <= hi
GenRangeIncl(lo, hi, u) == lo + TDiv((hi - lo) * u, RngSteps - 1)

\* rng.gen_range(0..n) of integers
GenIndex(n, u) == u % n

\* ------------------------------------------------------------------------
\* Program constants
\* ------------------------------------------------------------------------
WIDTH == 800
HEIGHT == 800
DIFFICULTY == 2500
MID_X == (WIDTH * Milli) \div 2
MID_Y == (HEIGHT * Milli) \div 2
SPEED == 5000
MAX_SPEED == 300000
ROTATIONAL_SPEED == 7500
DRAG == 980
DEFAULT_MAX == 80000
DEFAULT_MIN == 20000
ASTEROID_SPEED == 100000
CLOSEST == 150000
LEVEL_PAUSE == 2000
NUM_POINTS == 10

POINTS == << Vec(0, -20000), Vec(-10000, 10000), Vec(0, 5000), Vec(10000, 10000) >>

\* ------------------------------------------------------------------------
\* Model<SIZE>
\* ------------------------------------------------------------------------
ModelNew(points, position) ==
    [points |-> points, position |-> position, rotation |-> 0,
     scale |-> Milli, color |-> "WHITE"]

\* a draw_points that leaves the closing point at its initial (0, 0)
draw_pointsOpen(m) ==
    LET SIZE == Len(m.points)
        batch == [i \in 1 .. SIZE |->
                    VAdd(VScale(VRotate(m.points[i], m.rotation), m.scale),
                         m.position)]
    IN  batch \o << Vec(0, 0) >>

draw_points(m) ==
    LET SIZE == Len(m.points)
        batch == [i \in 1 .. SIZE |->
                    VAdd(VScale(VRotate(m.points[i], m.rotation), m.scale),
                         m.position)]
    IN  batch \o << batch[1] >>

get_direction(m) == Vec(Sin(m.rotation), -Cos(m.rotation))

\* a wrap that also moves a coordinate lying on the edge
WrapClosed(c, size) ==
    IF c <= 0 THEN c + size * Milli
    ELSE IF c >= size * Milli THEN c - size * Milli
    ELSE c

\* one axis of apply_constraints
Wrap(c, size) ==
    IF c < 0 THEN c + size * Milli
    ELSE IF c > size * Milli THEN c - size * Milli
    ELSE c

\* an apply_constraints that leaves the position where it is
apply_constraintsNone(m) == m

apply_constraints(m) ==
    [m EXCEPT !.position = Vec(Wrap(m.position.x, WIDTH), Wrap(m.position.y, HEIGHT))]

\* ------------------------------------------------------------------------
\* Player
\* ------------------------------------------------------------------------
PlayerSpawn(position) ==
    [model |-> ModelNew(POINTS, position), force |-> Vec(0, 0)]

PlayerApply(p, dt) ==
    [p EXCEPT !.model =
        apply_constraints([p.model EXCEPT !.position =
                              VAdd(p.model.position, VScale(p.force, dt))])]

\* ------------------------------------------------------------------------
\* AsteroidType and Asteroid
\* ------------------------------------------------------------------------
Variants == << "Small", "Medium", "Large" >>

Size(class) ==
    CASE class = "Small" -> 300
      [] class = "Medium" -> 1000
      [] class = "Large" -> 2000

Degrade(class) ==
    CASE class = "Small" -> "None"
      [] class = "Medium" -> "Small"
      [] class = "Large" -> "Medium"

AsteroidTypeRandom(u) == Variants[GenIndex(Len(Variants), u) + 1]

\* Asteroid::spawn; the generator is at draw number base of stream seed
AsteroidSpawn(position, seed, base) ==
    LET class == AsteroidTypeRandom(Rand(seed, base))
        direction == Vec(GenRangeIncl(-Milli, Milli, Rand(seed, base + 1)),
                         GenRangeIncl(-Milli, Milli, Rand(seed, base + 2)))
        increment == TDiv(TWO_PI, NUM_POINTS - 1)
        min == FMul(DEFAULT_MIN, Size(class))
        max == FMul(DEFAULT_MAX, Size(class))
        points == [i \in 1 .. NUM_POINTS |->
                     LET current == (i - 1) * increment
                     IN  Vec(FMul(Sin(current),
                                  GenRange(min, max, Rand(seed, base + 1 + 2 * i))),
                             FMul(Cos(current),
                                  GenRange(min, max, Rand(seed, base + 2 + 2 * i))))]
    IN  [model |-> ModelNew(points, position), direction |-> direction,
         class |-> class]

\* the number of draws one levelup iteration makes: 2 for the place, 23 in spawn
DrawsPerAsteroid == 2 + 3 + 2 * NUM_POINTS

AsteroidApply(a, dt) ==
    [a EXCEPT !.model =
        apply_constraints([a.model EXCEPT !.position =
            VAdd(a.model.position,
                 VScale(VScale(VDiv(a.direction, Size(a.class)), ASTEROID_SPEED),
                        dt))])]

\* ------------------------------------------------------------------------
\* Game: the state
\* ------------------------------------------------------------------------
VARIABLES
    player,       \* Game.player
    asteroids,    \* Game.asteroids, a Vec<Asteroid>
    level,        \* Game.level
    pause,        \* Game.pause, the pause flag
    pause_time,   \* Game.pause_time, the pause-start timestamp (0.0: not latched)
    pause_end,    \* Game.pause_end, the pause duration
    show_level,   \* Game.show_level, the overlay flag
    clock,        \* the last value rl.get_time() returned
    frames,       \* the number of Running update calls made so far
    last,         \* the last call made on the Game
    pause_src,    \* the call that started the current pause, "none" when Running
    pause_first,  \* the clock reading of the first update since that call
    probe         \* the last call's name and arguments, when it was pause or a
                  \* direct call of a Model method

game == << player, asteroids, level, pause, pause_time, pause_end, show_level >>
vars == << player, asteroids, level, pause, pause_time, pause_end, show_level,
           clock, frames, last, pause_src, pause_first, probe >>

NoTime == -1
NoProbe == [op |-> "none", arg |-> << >>]

\* Game::new
New ==
    /\ player = PlayerSpawn(Vec(FDiv(WIDTH * Milli, 2 * Milli), FDiv(HEIGHT * Milli, 2 * Milli)))
    /\ asteroids = << >>
    /\ level = 0
    /\ pause = FALSE
    /\ pause_time = 0
    /\ pause_end = 0
    /\ show_level = FALSE

Init ==
    /\ New
    /\ clock = 0
    /\ frames = 0
    /\ last = "new"
    /\ pause_src = "none"
    /\ pause_first = NoTime
    /\ probe = NoProbe

\* ------------------------------------------------------------------------
\* Game::levelup
\* ------------------------------------------------------------------------
\* count of line 209, for the level already incremented
Count(lvl) == Round(FMul(lvl * Milli, DIFFICULTY))

\* a loop that draws the two radii from [0, 2 * CLOSEST)
BatchFromCentre(count, seed) ==
    LET increment == FDiv(TWO_PI, count * Milli)
    IN  [j \in 1 .. count |->
            LET current == (j - 1) * increment
                base == (j - 1) * DrawsPerAsteroid
                x == FMul(Sin(current),
                          GenRange(0, FMul(CLOSEST, 2 * Milli), Rand(seed, base)))
                     + MID_X
                y == FMul(Cos(current),
                          GenRange(0, FMul(CLOSEST, 2 * Milli), Rand(seed, base + 1)))
                     + MID_Y
            IN  AsteroidSpawn(Vec(x, y), seed, base + 2)]

\* the asteroids the loop of lines 219-228 pushes
Batch(count, seed) ==
    LET increment == FDiv(TWO_PI, count * Milli)
    IN  [j \in 1 .. count |->
            LET current == (j - 1) * increment
                base == (j - 1) * DrawsPerAsteroid
                x == FMul(Sin(current),
                          GenRange(CLOSEST, FMul(CLOSEST, 2 * Milli), Rand(seed, base)))
                     + MID_X
                y == FMul(Cos(current),
                          GenRange(CLOSEST, FMul(CLOSEST, 2 * Milli), Rand(seed, base + 1)))
                     + MID_Y
            IN  AsteroidSpawn(Vec(x, y), seed, base + 2)]

\* a levelup that clears the collection before it pushes
PushedAfterClear(old, count, seed) == Batch(count, seed)

\* what levelup leaves in self.asteroids: reserve, then one push per iteration
Pushed(old, count, seed) == old \o Batch(count, seed)

\* a levelup that leaves the level counter alone
LevelUpSameLevel(seed) ==
    /\ level' = level
    /\ player' = [player EXCEPT !.model.position = Vec(MID_X, MID_Y)]
    /\ asteroids' = Pushed(asteroids, Count(level + 1), seed)
    /\ pause' = TRUE
    /\ pause_end' = LEVEL_PAUSE
    /\ show_level' = TRUE
    /\ UNCHANGED pause_time

LevelUp(seed) ==
    /\ level' = level + 1
    /\ player' = [player EXCEPT !.model.position = Vec(MID_X, MID_Y)]
    /\ asteroids' = Pushed(asteroids, Count(level'), seed)
    /\ pause' = TRUE
    /\ pause_end' = LEVEL_PAUSE
    /\ show_level' = TRUE
    /\ UNCHANGED pause_time

\* ------------------------------------------------------------------------
\* Game::update.  t is the value of rl.get_time() (read at lines 239 and 241,
\* taken as one reading), dt the value of rl.get_frame_time(), keys the keys
\* for which rl.is_key_down holds.
\* ------------------------------------------------------------------------
\* a latch that takes every reading, whatever the timestamp holds
LatchedAlways(t) == t

\* lines 238-240: the pause-start timestamp after the latch
Latched(t) == IF pause_time = 0 THEN t ELSE pause_time

\* a pause timer that keeps the timestamp when the pause ends
PauseTimerNoReset(t) ==
    IF t - Latched(t) >= pause_end
      THEN /\ pause' = FALSE
           /\ show_level' = FALSE
           /\ pause_time' = Latched(t)
      ELSE /\ pause_time' = Latched(t)
           /\ UNCHANGED << pause, show_level >>

\* a pause timer that leaves the overlay on when the pause ends
PauseTimerKeepsOverlay(t) ==
    IF t - Latched(t) >= pause_end
      THEN /\ pause' = FALSE
           /\ pause_time' = 0
           /\ UNCHANGED show_level
      ELSE /\ pause_time' = Latched(t)
           /\ UNCHANGED << pause, show_level >>

\* lines 238-245: the pause timer
PauseTimer(t) ==
    IF t - Latched(t) >= pause_end
      THEN /\ pause' = FALSE
           /\ show_level' = FALSE
           /\ pause_time' = 0
      ELSE /\ pause_time' = Latched(t)
           /\ UNCHANGED << pause, show_level >>

\* lines 251-258
Rotated(p, dt, keys) ==
    LET r1 == IF "A" \in keys
                THEN p.model.rotation - FMul(ROTATIONAL_SPEED, dt)
                ELSE p.model.rotation
        r2 == IF "D" \in keys THEN r1 + FMul(ROTATIONAL_SPEED, dt) ELSE r1
    IN  [p EXCEPT !.model.rotation = r2]

\* a thrust without the clamp of line 262
ThrustNoClamp(p) ==
    [p EXCEPT !.force = VAdd(p.force, VScale(get_direction(p.model), SPEED))]

\* lines 261-262
Thrust(p) ==
    [p EXCEPT !.force =
        VClamp(VAdd(p.force, VScale(get_direction(p.model), SPEED)),
               -MAX_SPEED, MAX_SPEED)]

\* line 266
Drag(p) == [p EXCEPT !.force = VScale(p.force, DRAG)]

\* a frame that applies the drag whether or not the thrust key is down
ForcedDragAlways(p, keys) == Drag(IF "W" \in keys THEN Thrust(p) ELSE p)

\* lines 259-267
Forced(p, keys) == IF "W" \in keys THEN Thrust(p) ELSE Drag(p)

\* a physics step that drops the asteroids that leave the arena
MovedCulled(as, dt) ==
    LET Inside(a) ==
            LET q == VAdd(a.model.position,
                          VScale(VScale(VDiv(a.direction, Size(a.class)),
                                        ASTEROID_SPEED), dt))
            IN  /\ q.x >= 0 /\ q.x <= WIDTH * Milli
                /\ q.y >= 0 /\ q.y <= HEIGHT * Milli
        kept == SelectSeq(as, Inside)
    IN  [i \in 1 .. Len(kept) |-> AsteroidApply(kept[i], dt)]

\* lines 270-272
Moved(as, dt) == [i \in 1 .. Len(as) |-> AsteroidApply(as[i], dt)]

\* lines 249-272
Physics(dt, keys) ==
    /\ player' = PlayerApply(Forced(Rotated(player, dt, keys), keys), dt)
    /\ asteroids' = Moved(asteroids, dt)

\* an update whose paused branch does not return at line 246
UpdateNoReturn(t, dt, keys) ==
    IF pause
      THEN /\ PauseTimer(t)
           /\ Physics(dt, keys)
           /\ UNCHANGED << level, pause_end >>
      ELSE /\ Physics(dt, keys)
           /\ UNCHANGED << level, pause, pause_time, pause_end, show_level >>

Update(t, dt, keys) ==
    IF pause
      THEN /\ PauseTimer(t)
           /\ UNCHANGED << player, asteroids, level, pause_end >>
      ELSE /\ Physics(dt, keys)
           /\ UNCHANGED << level, pause, pause_time, pause_end, show_level >>

\* ------------------------------------------------------------------------
\* Game::pause
\* ------------------------------------------------------------------------
\* a pause that also restarts the pause timer
PauseRestart(time) ==
    /\ pause_end' = time
    /\ pause' = TRUE
    /\ pause_time' = 0
    /\ UNCHANGED << player, asteroids, level, show_level >>

Pause(time) ==
    /\ pause_end' = time
    /\ pause' = TRUE
    /\ UNCHANGED << player, asteroids, level, pause_time, show_level >>

\* ------------------------------------------------------------------------
\* The driver.  main.rs calls levelup once and then update once per frame;
\* Spec lets any of the three public calls come at any time, with a clock
\* that never runs backwards.
\* ------------------------------------------------------------------------
\* the values rl.get_time() takes
Times == { 0, 100, 2000, 2100 }
\* the values rl.get_frame_time() takes
FrameTimes == { 0, 2000 }
\* the sets of keys held during a frame
KeySets == { {}, { "A" }, { "W" }, { "D", "W" } }
\* the durations pause is called with
Durations == { 0, 100 }

\* the history kept of one update call at reading t
TrackedAs(t, p) ==
    /\ clock' = t
    /\ last' = IF pause THEN "update_paused" ELSE "update_running"
    /\ pause_src' = IF pause' THEN pause_src ELSE "none"
    /\ pause_first' = IF ~pause' THEN NoTime
                      ELSE IF pause /\ pause_first = NoTime THEN t
                      ELSE pause_first
    /\ probe' = p

Tracked(t) == TrackedAs(t, NoProbe)

LevelUpStep ==
    /\ level < MaxLevel
    /\ \E seed \in Seeds : LevelUp(seed)
    /\ last' = "levelup"
    /\ pause_src' = "levelup"
    /\ pause_first' = NoTime
    /\ probe' = NoProbe
    /\ UNCHANGED << clock, frames >>

PauseStep ==
    /\ \E d \in Durations : Pause(d) /\ probe' = [op |-> "pause", arg |-> << d >>]
    /\ last' = "pause"
    /\ pause_src' = "pause"
    /\ pause_first' = NoTime
    /\ UNCHANGED << clock, frames >>

PausedFrame ==
    /\ pause
    /\ \E t \in Times, dt \in FrameTimes, keys \in KeySets :
          t >= clock /\ Update(t, dt, keys) /\ Tracked(t)
    /\ UNCHANGED frames

RunningFrame ==
    /\ ~pause
    /\ frames < MaxFrames
    /\ \E t \in Times, dt \in FrameTimes, keys \in KeySets :
          t >= clock /\ Update(t, dt, keys) /\ Tracked(t)
    /\ frames' = frames + 1

Next == LevelUpStep \/ PauseStep \/ PausedFrame \/ RunningFrame

Spec == Init /\ [][Next]_vars

\* ------------------------------------------------------------------------
\* The driver of main.rs, played long enough for the player to reach full
\* speed: levelup once before the first frame, then frames.  The player
\* turns while at rest, thrusts on frames of no duration and releases the
\* thrust key only at full speed, for a few frames, of which those that find
\* the player at the centre may last; pause is called between the bursts.
\* ------------------------------------------------------------------------
AtRest == player.force = Vec(0, 0)

\* the force is clamped on every axis it acts on
FullSpeed ==
    /\ ~AtRest
    /\ player.force.x \in { -MAX_SPEED, 0, MAX_SPEED }
    /\ player.force.y \in { -MAX_SPEED, 0, MAX_SPEED }

\* a Running update with its inputs and the number of frames in a row,
\* this one included, that it has coasted since the force was at full speed
UpdateProbe(keys, dt, run) == [op |-> "update", arg |-> << keys, dt, run >>]

CoastRun == IF probe.op = "update" THEN probe.arg[3] ELSE 0

CanCoast == FullSpeed \/ (CoastRun > 0 /\ CoastRun < MaxCoast)

AtCentre == player.model.position = Vec(MID_X, MID_Y)

BootLevelUp ==
    /\ last = "new"
    /\ LevelUpStep

TurnFrame ==
    /\ ~pause
    /\ frames < MaxBurn
    /\ AtRest
    /\ \E keys \in { { "A" }, { "D" } } :
          /\ Update(clock, 2000, keys)
          /\ Abs(player'.model.rotation) <= MaxTurn * FMul(ROTATIONAL_SPEED, 2000)
          /\ TrackedAs(clock, UpdateProbe(keys, 2000, 0))
    /\ frames' = frames + 1

BurnFrame ==
    /\ ~pause
    /\ frames < MaxBurn
    /\ Update(clock, 0, { "W" })
    /\ TrackedAs(clock, UpdateProbe({ "W" }, 0, 0))
    /\ frames' = frames + 1

CoastFrame ==
    /\ ~pause
    /\ frames < MaxBurn
    /\ CanCoast
    /\ \E dt \in FrameTimes :
          /\ (dt > 0 => AtCentre)
          /\ Update(clock, dt, {})
          /\ TrackedAs(clock, UpdateProbe({}, dt, (IF FullSpeed THEN 0 ELSE CoastRun) + 1))
    /\ frames' = frames + 1

\* pause called between bursts of thrust
ThrustPause ==
    /\ AtRest \/ FullSpeed \/ CoastRun > 0
    /\ PauseStep

NextThrust ==
    BootLevelUp \/ ThrustPause \/ PausedFrame \/ TurnFrame \/ BurnFrame \/ CoastFrame

SpecThrust == Init /\ [][NextThrust]_vars

\* ------------------------------------------------------------------------
\* Model::apply_constraints called on its own, on a position that the
\* integration step of apply may have left anywhere around the arena.
\* ------------------------------------------------------------------------
WrapCoords ==
    { -800001, -800000, -400000, -1, 0, 1, 400000, 799999, 800000, 800001,
      1200000, 1600000, 1600001 }

InitWrap ==
    /\ \E x \in WrapCoords, y \in WrapCoords :
          player = [PlayerSpawn(Vec(MID_X, MID_Y)) EXCEPT !.model.position = Vec(x, y)]
    /\ asteroids = << >>
    /\ level = 0
    /\ pause = FALSE
    /\ pause_time = 0
    /\ pause_end = 0
    /\ show_level = FALSE
    /\ clock = 0
    /\ frames = 0
    /\ last = "new"
    /\ pause_src = "none"
    /\ pause_first = NoTime
    /\ probe = NoProbe

WrapStep ==
    /\ probe = NoProbe
    /\ player' = [player EXCEPT !.model = apply_constraints(player.model)]
    /\ probe' = [op |-> "apply_constraints",
                 arg |-> << player.model.position.x, player.model.position.y >>]
    /\ UNCHANGED << asteroids, level, pause, pause_time, pause_end, show_level,
                    clock, frames, last, pause_src, pause_first >>

NextWrap == WrapStep

SpecWrap == InitWrap /\ [][NextWrap]_vars

\* ------------------------------------------------------------------------
\* The driver with a clock that keeps growing: update is called again and
\* again, and its readings go up through a finite window of clock values.
\* levelup and pause are called in the first part of the window only, and a
\* reading is taken only if the window has room left for the pause it times.
\* ------------------------------------------------------------------------
LiveTimes == { 0, 100, 2000, 2100, 4100, 4200 }
LiveCallsEnd == 2100
LiveEnd == 4200

LiveLevelUp ==
    /\ clock <= LiveCallsEnd
    /\ LevelUpStep

LivePause ==
    /\ clock <= LiveCallsEnd
    /\ PauseStep

\* an update at reading t while Paused
LivePausedAt(t) ==
    /\ pause
    /\ t >= clock
    /\ (t - Latched(t) >= pause_end \/ Latched(t) + pause_end <= LiveEnd)
    /\ Update(t, 0, {})
    /\ Tracked(t)
    /\ UNCHANGED frames

LivePausedFrame == \E t \in LiveTimes : LivePausedAt(t)

\* the updates that find the clock further on
LiveAdvance == \E t \in LiveTimes : t > clock /\ LivePausedAt(t)

LiveRunningFrame ==
    /\ ~pause
    /\ frames < MaxFrames
    /\ \E t \in LiveTimes : t >= clock /\ Update(t, 0, {}) /\ Tracked(t)
    /\ frames' = frames + 1

NextLive == LiveLevelUp \/ LivePause \/ LivePausedFrame \/ LiveRunningFrame

SpecLive ==
    /\ Init
    /\ [][NextLive]_vars
    /\ WF_vars(LivePausedFrame)
    /\ WF_vars(LiveAdvance)

\* ------------------------------------------------------------------------
\* Model::draw_points called on its own (render calls it on every model of
\* the game, lines 279-283), after the first levelup, with the player turned
\* and moved as earlier frames may have left it.
\* ------------------------------------------------------------------------
DrawRotations == { -15000, 0, 7500, 15000 }
DrawCoords == { 0, 400000, 612000 }

InitDraw ==
    /\ \E r \in DrawRotations, x \in DrawCoords, y \in DrawCoords :
          player = [PlayerSpawn(Vec(MID_X, MID_Y))
                      EXCEPT !.model.position = Vec(x, y), !.model.rotation = r]
    /\ \E seed \in Seeds : asteroids = Batch(Count(1), seed)
    /\ level = 1
    /\ pause = FALSE
    /\ pause_time = 0
    /\ pause_end = LEVEL_PAUSE
    /\ show_level = FALSE
    /\ clock = 0
    /\ frames = 0
    /\ last = "update_paused"
    /\ pause_src = "none"
    /\ pause_first = NoTime
    /\ probe = NoProbe

\* the models render draws
Models == { player.model } \cup { asteroids[k].model : k \in 1 .. Len(asteroids) }

DrawStep ==
    /\ probe = NoProbe
    /\ \E m \in Models :
          probe' = [op |-> "draw_points", arg |-> << m, draw_points(m) >>]
    /\ UNCHANGED << player, asteroids, level, pause, pause_time, pause_end,
                    show_level, clock, frames, last, pause_src, pause_first >>

NextDraw == DrawStep

SpecDraw == InitDraw /\ [][NextDraw]_vars

\* ------------------------------------------------------------------------
\* Properties
\* ------------------------------------------------------------------------
PlayerPose(p) == << p.model.position, p.model.rotation, p.force >>

Positions(as) == [i \in 1 .. Len(as) |-> as[i].model.position]

\* C1: a pause started by levelup is over after the first update whose clock
\* reading is at least 2.0 s later than the reading of the first update of
\* that pause, whatever that first reading was (0.0 included): after such an
\* update the pause flag and the overlay flag are false.
C1_PauseEndsAfterTwoSeconds ==
    ( /\ last = "update_paused"
      /\ pause_src = "levelup"
      /\ pause_first # NoTime
      /\ clock - pause_first >= LEVEL_PAUSE )
    => (~pause /\ ~show_level)

C3_FirstLevelUp ==
    [][ (level = 0 /\ asteroids = << >> /\ ~pause /\ last' = "levelup") =>
          /\ level' = 1
          /\ Len(asteroids') = 3
          /\ pause'
          /\ show_level'
          /\ pause_end' = 2000
          /\ player'.model.position = Vec(400000, 400000) ]_vars

C3_Witness ==
    /\ last = "levelup"
    /\ level = 1
    /\ frames = 0
    /\ clock = 0
    /\ Len(asteroids) = 3
    /\ pause
    /\ show_level

\* C4: an update call made while the pause flag is true, the one that ends
\* the pause included, leaves the position, the rotation and the force of
\* the player and the position of every asteroid as they were.
C4_PausedUpdateFreezes ==
    [][ (pause /\ last' = "update_paused") =>
          /\ PlayerPose(player') = PlayerPose(player)
          /\ Positions(asteroids') = Positions(asteroids) ]_vars

C4_Witness ==
    /\ last = "update_paused"
    /\ ~pause
    /\ player.force # Vec(0, 0)
    /\ asteroids # << >>

\* C5: the force of the player never exceeds MAX_SPEED on either axis.
C5_ForceBounded ==
    /\ Abs(player.force.x) <= MAX_SPEED
    /\ Abs(player.force.y) <= MAX_SPEED

C5_Witness ==
    /\ last = "update_running"
    /\ player.force.x = MAX_SPEED
    /\ player.force.y # 0
    /\ level = 1

\* C6: whenever the pause flag is false the pause-start timestamp is 0; the
\* timestamp is written by nothing but an update made while paused.
C6_TimestampSentinel ==
    /\ ~pause => pause_time = 0
    /\ [][ /\ ~pause' => pause_time' = 0
           /\ pause_time' # pause_time => (pause /\ last' = "update_paused") ]_vars

C6_Witness ==
    /\ last = "update_paused"
    /\ ~pause
    /\ pause_end = LEVEL_PAUSE
    /\ pause_time = 0

\* C7: apply_constraints treats each axis on its own: a coordinate below 0
\* gains 800, one above 800 loses 800, one in [0, 800] (0 and 800 included)
\* stays, and a coordinate of [-800, 1600] ends in [0, 800].
WrapsAs(c, r) ==
    /\ c < 0 => r = c + 800000
    /\ c > 800000 => r = c - 800000
    /\ (0 <= c /\ c <= 800000) => r = c
    /\ (-800000 <= c /\ c <= 1600000) => (0 <= r /\ r <= 800000)

C7_WrapPerAxis ==
    probe.op = "apply_constraints" =>
        /\ WrapsAs(probe.arg[1], player.model.position.x)
        /\ WrapsAs(probe.arg[2], player.model.position.y)

C7_Witness ==
    /\ probe.op = "apply_constraints"
    /\ probe.arg = << 0, 800001 >>
    /\ player.model.position = Vec(0, 1)

\* C8: pause(duration) sets the pause flag and the pause duration and
\* nothing else, in a Running Game and in a Paused one.
C8_PauseFrame ==
    [][ last' = "pause" =>
          /\ pause'
          /\ pause_end' = probe'.arg[1]
          /\ UNCHANGED << level, show_level, pause_time, asteroids, player >> ]_vars

C8_Witness ==
    /\ last = "pause"
    /\ probe.arg = << 100 >>
    /\ pause_end = 100
    /\ pause_time # 0
    /\ show_level
    /\ asteroids # << >>

\* C9: the number of asteroids changes in levelup only: no update, Paused or
\* Running, and no pause call adds or removes one.
C9_CountChangesInLevelUpOnly ==
    [][ Len(asteroids') # Len(asteroids) => last' = "levelup" ]_vars

C9_Witness ==
    /\ last = "update_running"
    /\ Len(asteroids) = Count(1) + Count(2)
    /\ \E i \in 1 .. Len(asteroids) : asteroids[i].model.position.x > 690000

\* C10: the level never decreases: levelup adds exactly 1 to it, which makes
\* it at least 1, and update and pause leave it as it is.
C10_LevelMonotone ==
    [][ /\ level' >= level
        /\ last' = "levelup" => (level' = level + 1 /\ level' >= 1)
        /\ last' \in { "update_paused", "update_running", "pause" }
              => level' = level ]_vars

C10_Witness ==
    /\ level = 2
    /\ last = "update_running"

\* C11: each of the 10 points of a spawned asteroid is (sin(angle) * r,
\* cos(angle) * r) for one radius r of [20 * size, 80 * size): both
\* components of a point come from the same sampled radius.
PointAngle(i) == (i - 1) * TDiv(TWO_PI, NUM_POINTS - 1)

\* some radius r of [lo, hi) gives the point p at the given angle; the
\* candidates are the radii around the quotient by the larger of sin and cos
OnOneRadius(p, angle, lo, hi) ==
    LET sn == Sin(angle)
        cs == Cos(angle)
        r0 == IF Abs(sn) >= Abs(cs) THEN TDiv(p.x * Milli, sn)
                                    ELSE TDiv(p.y * Milli, cs)
    IN  \E r \in (r0 - 2) .. (r0 + 2) :
            /\ lo <= r /\ r < hi
            /\ p.x = FMul(sn, r)
            /\ p.y = FMul(cs, r)

C11_OneRadiusPerPoint ==
    \A k \in 1 .. Len(asteroids) :
        \A i \in 1 .. NUM_POINTS :
            OnOneRadius(asteroids[k].model.points[i], PointAngle(i),
                        FMul(20000, Size(asteroids[k].class)),
                        FMul(80000, Size(asteroids[k].class)))

\* C12: draw_points of a shape of N points returns N + 1 points, the last
\* equal to the first; point i is local point i rotated by the rotation,
\* multiplied by the scale and moved by the position; the shape is unchanged.
RotatedBy(v, angle) ==
    Vec(FMul(v.x, Cos(angle)) - FMul(v.y, Sin(angle)),
        FMul(v.x, Sin(angle)) + FMul(v.y, Cos(angle)))

C12_OutlineClosed ==
    probe.op = "draw_points" =>
        LET m == probe.arg[1]
            out == probe.arg[2]
            N == Len(m.points)
        IN  /\ Len(out) = N + 1
            /\ out[N + 1] = out[1]
            /\ \A i \in 1 .. N :
                   LET r == RotatedBy(m.points[i], m.rotation)
                   IN  out[i] = Vec(FMul(r.x, m.scale) + m.position.x,
                                    FMul(r.y, m.scale) + m.position.y)
            /\ m \in Models

C12_Witness ==
    /\ probe.op = "draw_points"
    /\ probe.arg[1].rotation = 15000
    /\ probe.arg[1].position = Vec(612000, 0)
    /\ probe.arg[2][1] # probe.arg[1].points[1]

\* C13: with update called again and again on a clock that keeps growing,
\* and no levelup or pause call after some point, every Paused state is
\* followed by a Running state, also when the first reading of the pause
\* was 0.0.
C13_PauseEnds == pause ~> ~pause

C13_Witness ==
    /\ pause
    /\ pause_first = 0
    /\ pause_time > 0
    /\ last = "update_paused"

\* C14: every levelup starts a full 2.0 s pause, also a levelup made while
\* Paused with the timestamp latched: the update that ends a pause started by
\* levelup reads the clock at least 2.0 s after the reading of the first
\* update that followed that levelup.
C14_FullPauseAfterLevelUp ==
    [][ ( /\ pause
          /\ pause_src = "levelup"
          /\ last' = "update_paused"
          /\ ~pause' )
        => ( /\ pause_first # NoTime
             /\ clock' - pause_first >= LEVEL_PAUSE ) ]_vars

\* C15: a Running update without thrust multiplies the force by 0.98 on both
\* axes, whatever the frame time, so that n such updates in a row leave
\* 0.98^n of the force; an update with thrust applies no drag; an update made
\* while Paused leaves the force alone.
RECURSIVE Decayed(_, _)
Decayed(c, n) == IF n = 0 THEN c ELSE Decayed(FMul(c, 980), n - 1)

C15_DragPerTick ==
    [][ /\ (last' = "update_paused") => player'.force = player.force
        /\ (last' = "update_running" /\ probe'.op = "update") =>
              IF "W" \in probe'.arg[1]
                THEN player'.force =
                       VClamp(VAdd(player.force,
                                   VScale(get_direction(player'.model), 5000)),
                              -300000, 300000)
                ELSE /\ player'.force = Vec(FMul(player.force.x, 980),
                                            FMul(player.force.y, 980))
                     /\ \A n \in 1 .. MaxCoast :
                           probe'.arg[3] = n =>
                             /\ Abs(player'.force.x) \in { 0, Decayed(300000, n) }
                             /\ Abs(player'.force.y) \in { 0, Decayed(300000, n) } ]_vars

C15_Witness ==
    /\ last = "update_running"
    /\ probe.op = "update"
    /\ probe.arg = << {}, 2000, 2 >>
    /\ player.force = Vec(0, -Decayed(300000, 2))
    /\ player.model.position.y # MID_Y

\* C16: every asteroid levelup creates is placed at a distance d from the
\* centre (400, 400) of the arena with 150 <= d < 300, and inside the arena.
\* the whole part of the squared distance, in px^2, of position p from the
\* centre: the square is taken on the thousands and the thousandths apart
SquaredDistance(p) ==
    LET dx == Abs(p.x - 400000)
        dy == Abs(p.y - 400000)
        xh == dx \div 1000
        xl == dx % 1000
        yh == dy \div 1000
        yl == dy % 1000
    IN  xh * xh + yh * yh
          + (2 * (xh * xl + yh * yl) * 1000 + xl * xl + yl * yl) \div 1000000

\* the asteroids the last levelup pushed
NewBatch == SubSeq(asteroids, Len(asteroids) - Count(level) + 1, Len(asteroids))

C16_SpawnDistance ==
    last = "levelup" =>
        \A k \in 1 .. Len(NewBatch) :
            LET p == NewBatch[k].model.position
            IN  /\ 150 * 150 <= SquaredDistance(p)
                /\ SquaredDistance(p) < 300 * 300
                /\ 0 <= p.x /\ p.x <= 800000
                /\ 0 <= p.y /\ p.y <= 800000

C16_Witness ==
    /\ last = "levelup"
    /\ level = 2
    /\ frames = 1
    /\ \E k \in 1 .. Len(NewBatch) :
          /\ NewBatch[k].model.position.x < 400000
          /\ NewBatch[k].model.position.y < 400000
          /\ SquaredDistance(NewBatch[k].model.position) > 200 * 200

\* C17: in every reachable state the overlay flag implies the pause flag: the
\* level overlay is never shown while the game is Running.
C17_OverlayOnlyWhilePaused == show_level => pause

C17_Witness ==
    /\ last = "update_paused"
    /\ pause_src = "none"
    /\ ~pause
    /\ ~show_level
    /\ level = 2
    /\ pause_end = 0

\* C18: after every update and every levelup the position of the player and
\* of every asteroid lies in [0, 800] x [0, 800], provided no actor is moved
\* by more than 800 on either axis in the one update.
Within(v, d) == Abs(v.x) <= d /\ Abs(v.y) <= d

InArena(m) ==
    /\ 0 <= m.position.x /\ m.position.x <= 800000
    /\ 0 <= m.position.y /\ m.position.y <= 800000

\* the displacement an asteroid gets from a frame of duration dt
Displacement(a, dt) ==
    VScale(VScale(VDiv(a.direction, Size(a.class)), 100000), dt)

C18_PositionsInArena ==
    [][ ( /\ last' \in { "levelup", "update_paused", "update_running" }
          /\ (last' = "update_running" /\ probe'.op = "update") =>
                /\ Within(VScale(player'.force, probe'.arg[2]), 800000)
                /\ \A k \in 1 .. Len(asteroids) :
                      Within(Displacement(asteroids[k], probe'.arg[2]), 800000) )
        => ( /\ InArena(player'.model)
             /\ \A k \in 1 .. Len(asteroids') : InArena(asteroids'[k].model) ) ]_vars

C18_Witness ==
    /\ last = "update_running"
    /\ probe.op = "update"
    /\ probe.arg[2] = 2000
    /\ player.model.position = Vec(400000, 612000)
    /\ \E k \in 1 .. Len(asteroids) : asteroids[k].model.position.x > 700000

====
